---- MODULE Spec2Model ----
(***************************************************************************)
(* The business dashboard: class Dashboard of src/dashboard.js (the        *)
(* variant that fetches http://localhost:8000/businesses) and of           *)
(* src/unnamed/part_000 lines 504-808 (the variant that fetches            *)
(* businesses.json).  The page runs one of the two scripts; `variant`      *)
(* says which.                                                             *)
(*                                                                         *)
(* JavaScript values are records [t, v]: t is the typeof tag and v the     *)
(* value as a sequence of one-character strings (the characters of a       *)
(* string, the decimal digits of a number).                                *)
(***************************************************************************)
EXTENDS Integers, Sequences, FiniteSets, TLC

VARIABLES
    variant,          \* "server": src/dashboard.js, "local": src/unnamed/part_000
    env,              \* what the outside can deliver: records, filter texts, sort keys
    businesses,       \* this.businesses when it is an array: its records
    notArray,         \* "" when this.businesses is an array, else the type of
                      \* the value it holds ("string", "number", "object")
    selectedBusiness, \* this.selectedBusiness: <<>> is null, <<r>> the record r
    sidebar,          \* this.sidebar.innerHTML: <<>> initial, <<v>> a detail view
    cards,            \* this.businessContainer.innerHTML: the cards on display
    filterText,       \* this.filterInput.value
    sortBy,           \* this.sortSelect.value
    listening,        \* setupEventListeners has run
    loads,            \* the loadBusinesses calls so far, each with its position
    logged,           \* the entries the last step appended to #console-log
    last              \* what the last step was: operation, arguments, outcome

vars == <<variant, env, businesses, notArray, selectedBusiness, sidebar, cards,
          filterText, sortBy, listening, loads, logged, last>>

----------------------------------------------------------------------------
(* Bounds *)

\* longest record array a payload carries
MaxLen == 2
\* loadBusinesses calls in one session (the first is initialize's)
MaxLoads == 2

----------------------------------------------------------------------------
(* JavaScript values *)

Str(s) == [t |-> "string", v |-> s]
Num(d) == [t |-> "number", v |-> d]
Undefined == [t |-> "undefined", v |-> <<>>]

\* ToBoolean: undefined, "" and 0 are falsy
Truthy(x) ==
    CASE x.t = "undefined" -> FALSE
      [] x.t = "string" -> x.v # <<>>
      [] x.t = "number" -> x.v # <<"0">>
      [] OTHER -> TRUE

\* x || y
OrElse(x, y) == IF Truthy(x) THEN x ELSE y

\* String(x), as a template literal `${x}` converts
TemplStr(x) ==
    CASE x.t = "undefined" -> <<"u","n","d","e","f","i","n","e","d">>
      [] OTHER -> x.v

\* x === y
StrictEq(x, y) == x.t = y.t /\ x.v = y.v

DigitChars == <<"0","1","2","3","4","5","6","7","8","9">>

RECURSIVE Digits(_)
\* the decimal digits of a number n >= 0, as `${n}` prints them
Digits(n) ==
    IF n < 10 THEN <<DigitChars[n + 1]>>
    ELSE Digits(n \div 10) \o <<DigitChars[(n % 10) + 1]>>

Letters == <<"a","b","c","d","e","f","g","h","i","j","k","l","m",
             "n","o","p","q","r","s","t","u","v","w","x","y","z">>
Capitals == <<"A","B","C","D","E","F","G","H","I","J","K","L","M",
              "N","O","P","Q","R","S","T","U","V","W","X","Y","Z">>

IndexIn(c, s) ==
    IF \E i \in 1..Len(s) : s[i] = c
    THEN CHOOSE i \in 1..Len(s) : s[i] = c
    ELSE 0

\* the characters the strings of the model are written in
Alphabet ==
    {Letters[i] : i \in 1..Len(Letters)} \cup {Capitals[i] : i \in 1..Len(Capitals)}
    \cup {DigitChars[i] : i \in 1..Len(DigitChars)} \cup {" ", "_", "-", "\n"}

LowerOf ==
    [c \in Alphabet |->
        LET k == IndexIn(c, Capitals) IN IF k > 0 THEN Letters[k] ELSE c]

LowerChar(c) == LowerOf[c]

\* String.prototype.toLowerCase
toLowerCase(s) == [i \in 1..Len(s) |-> LowerChar(s[i])]

\* String.prototype.includes
includes(s, part) ==
    \E i \in 0..(Len(s) - Len(part)) : SubSeq(s, i + 1, i + Len(part)) = part

\* String.prototype.replace(/_/g, ' ')
replaceUnderscores(s) == [i \in 1..Len(s) |-> IF s[i] = "_" THEN " " ELSE s[i]]

RECURSIVE split(_)
\* String.prototype.split('\n'): always at least one piece
split(s) ==
    LET k == IndexIn("\n", s) IN
    IF k = 0 THEN <<s>>
    ELSE <<SubSeq(s, 1, k - 1)>> \o split(SubSeq(s, k + 1, Len(s)))

\* The collation weight of a character: white space and punctuation sort
\* before digits, digits before letters, a letter by its place in the
\* alphabet whatever its case.
PrimaryOf ==
    [c \in Alphabet |->
        LET lc == LowerOf[c] IN
        CASE IndexIn(lc, Letters) > 0 -> 20 + IndexIn(lc, Letters)
          [] IndexIn(c, DigitChars) > 0 -> 10 + IndexIn(c, DigitChars)
          [] c = " " -> 1
          [] c = "_" -> 2
          [] c = "-" -> 3
          [] OTHER -> 4]

Primary(c) == PrimaryOf[c]

\* lower case sorts before upper case when the letters are the same
TertiaryOf == [c \in Alphabet |-> IF IndexIn(c, Capitals) > 0 THEN 1 ELSE 0]

Tertiary(c) == TertiaryOf[c]

RECURSIVE LexCompare(_, _)
\* the order of two sequences of weights: -1, 0 or 1
LexCompare(a, b) ==
    IF a = <<>> /\ b = <<>> THEN 0
    ELSE IF a = <<>> THEN -1
    ELSE IF b = <<>> THEN 1
    ELSE IF Head(a) < Head(b) THEN -1
    ELSE IF Head(a) > Head(b) THEN 1
    ELSE LexCompare(Tail(a), Tail(b))

\* String.prototype.localeCompare on two strings: -1, 0 or 1
localeCompare(a, b) ==
    LET p == LexCompare([i \in 1..Len(a) |-> Primary(a[i])],
                        [i \in 1..Len(b) |-> Primary(b[i])])
    IN
    IF p # 0 THEN p
    ELSE LexCompare([i \in 1..Len(a) |-> Tertiary(a[i])],
                    [i \in 1..Len(b) |-> Tertiary(b[i])])

IsDigits(s) == \A i \in 1..Len(s) : IndexIn(s[i], DigitChars) > 0

RECURSIVE ToNumber(_)
ToNumber(s) ==
    IF s = <<>> THEN 0
    ELSE 10 * ToNumber(SubSeq(s, 1, Len(s) - 1)) + (IndexIn(s[Len(s)], DigitChars) - 1)

\* new Date(x) for the date-only form YYYY-MM-DD: the day it names, counted
\* so that a later date is a larger number, or -1 for an Invalid Date (NaN).
\* A number is a count of milliseconds after 1970-01-01, and falls on it.
DateValue(x) ==
    LET s == x.v
        y == ToNumber(SubSeq(s, 1, 4))
        m == ToNumber(SubSeq(s, 6, 7))
        d == ToNumber(SubSeq(s, 9, 10))
    IN
    CASE x.t = "number" -> 1970 * 372
      [] x.t = "string" /\ Len(s) = 10 /\ s[5] = "-" /\ s[8] = "-"
           /\ IsDigits(SubSeq(s, 1, 4)) /\ IsDigits(SubSeq(s, 6, 7))
           /\ IsDigits(SubSeq(s, 9, 10))
           /\ m \in 1..12 /\ d \in 1..31 -> y * 372 + (m - 1) * 31 + (d - 1)
      [] OTHER -> -1

Sign(n) == IF n < 0 THEN -1 ELSE IF n > 0 THEN 1 ELSE 0

----------------------------------------------------------------------------
(* Business records and payloads *)

\* One record of the payload.  A field the JSON object lacks is Undefined.
Rec(id, name, type, address, hours, date, lat, lng) ==
    [id |-> id, name |-> name, business_type |-> type, address |-> address,
     opening_hours |-> hours, search_date |-> date,
     latitude |-> lat, longitude |-> lng, primitive |-> FALSE]

\* An element of the array that is no object but a primitive, the number 5:
\* every property read of it gives undefined, and in the strict code of the
\* class an assignment to a property of it throws a TypeError
Primitive ==
    [Rec(Undefined, Undefined, Undefined, Undefined, Undefined, Undefined,
         Undefined, Undefined) EXCEPT !.primitive = TRUE]

\* The parsed body of a response: a bare array of records, or an object
\* with an optional status and an optional data array.  `data` is the type
\* of the body's data property ("none" where the body has no properties).
ArrayPayload(items) ==
    [shape |-> "array", status |-> "absent", hasData |-> FALSE, items |-> items,
     data |-> "none"]
ObjectPayload(status, items) ==
    [shape |-> "object", status |-> status, hasData |-> TRUE, items |-> items,
     data |-> "array"]
BareObjectPayload(status) ==
    [shape |-> "object", status |-> status, hasData |-> FALSE, items |-> <<>>,
     data |-> "undefined"]
\* an object whose data is no array: a non-empty string, a number other
\* than 0, or a plain object
OddDataPayload(t) ==
    [shape |-> "object", status |-> "absent", hasData |-> FALSE, items |-> <<>>,
     data |-> t]
\* the body `null`
NullPayload ==
    [shape |-> "null", status |-> "absent", hasData |-> FALSE, items |-> <<>>,
     data |-> "none"]

\* what a step appends to the activity log: log(message, type = 'info')
Log(type, msg) == [type |-> type, msg |-> msg]

Biz == <<"b","i","z","-">>

\* this.businesses.map((b, i) => { if (!b.id) b.id = `biz-${i + 1}`; return b })
AssignIds(arr) ==
    [i \in 1..Len(arr) |->
        IF ~Truthy(arr[i].id)
        THEN [arr[i] EXCEPT !.id = Str(Biz \o Digits(i))]
        ELSE arr[i]]

\* the first position at which the callback of this.businesses.map throws,
\* `b.id = ...` on an element that is a primitive, or 0
MapThrowsAt(arr) ==
    IF \E i \in 1..Len(arr) : arr[i].primitive /\ ~Truthy(arr[i].id)
    THEN CHOOSE i \in 1..Len(arr) :
            /\ arr[i].primitive /\ ~Truthy(arr[i].id)
            /\ \A j \in 1..(i - 1) : ~(arr[j].primitive /\ ~Truthy(arr[j].id))
    ELSE 0

\* `this.businesses = arr` has stored the array and the callback of map has
\* thrown at position n: the objects before n have their ids, written in
\* place, the rest of the array is as it arrived, and the catch block logs.
\* `before` are the entries logged up to the assignment.
MapThrew(arr, n, before) ==
    [businesses |-> [i \in 1..Len(arr) |->
                        IF i < n THEN AssignIds(arr)[i] ELSE arr[i]],
     notArray |-> "", outcome |-> "failed", promise |-> "fulfilled",
     logged |-> before \o <<Log("error", "Error loading businesses")>>]

\* `this.businesses = <data>` has stored a value of type t that is no array,
\* and this.businesses.map(...) on the next line throws a TypeError, which
\* the catch block logs: the value stays in this.businesses.  `before` are
\* the entries logged up to the assignment.
MapIsNotAFunction(t, before) ==
    [businesses |-> <<>>, notArray |-> t, outcome |-> "failed",
     promise |-> "fulfilled",
     logged |-> before \o <<Log("error", "Error loading businesses")>>]

\* requiredFields.filter(field => !(field in this.businesses[0]))
MissingFieldsLog(list) ==
    IF Len(list) > 0
       /\ \/ list[1].name.t = "undefined"
          \/ list[1].address.t = "undefined"
          \/ list[1].business_type.t = "undefined"
          \/ list[1].opening_hours.t = "undefined"
    THEN <<Log("warning", "Warning: Missing required fields in business data")>>
    ELSE <<>>

\* src/dashboard.js, after response.json() has resolved with `data`
LoadPayloadServer(data) ==
    IF data.status = "error"
    THEN [businesses |-> <<>>, notArray |-> "", outcome |-> "servererror",
          promise |-> "fulfilled",
          logged |-> <<Log("info", "Server response"),
                       Log("error", "Error from server")>>]
    ELSE IF data.data = "string"
    THEN MapIsNotAFunction("string",
                           <<Log("info", "Server response"),
                             Log("info", "Received businesses from server"),
                             Log("info", "First business data structure")>>)
    ELSE IF data.shape = "object" /\ data.hasData /\ MapThrowsAt(data.items) > 0
    THEN MapThrew(data.items, MapThrowsAt(data.items),
                  <<Log("info", "Server response"),
                    Log("info", "Received businesses from server"),
                    Log("info", "First business data structure")>>)
    ELSE IF data.shape = "object" /\ data.hasData /\ Len(data.items) > 0
    THEN [businesses |-> AssignIds(data.items), notArray |-> "",
          outcome |-> "loaded", promise |-> "fulfilled",
          logged |-> <<Log("info", "Server response"),
                       Log("info", "Received businesses from server"),
                       Log("info", "First business data structure"),
                       Log("info", "Loaded businesses"),
                       Log("info", "First business after processing")>>
                     \o MissingFieldsLog(AssignIds(data.items))]
    ELSE [businesses |-> <<>>, notArray |-> "", outcome |-> "loaded",
          promise |-> "fulfilled",
          logged |-> <<Log("info", "Server response"),
                       Log("warning", "No businesses found in the data file")>>]

\* Array.isArray(data) ? data : (data.data || [])
BusinessesArray(data) ==
    IF data.shape = "array" THEN data.items
    ELSE IF data.hasData THEN data.items
    ELSE <<>>

\* part_000 from `this.businesses = businessesArray` on: arr is
\* businessesArray and list what the map over it returns
LoadedLocal(arr, list) ==
    [businesses |-> list, notArray |-> "", outcome |-> "loaded",
     promise |-> "fulfilled",
     logged |-> <<Log("info", "Successfully loaded businesses")>>
                \o (IF Len(arr) > 0
                    THEN <<Log("info", "First business data structure")>>
                    ELSE <<>>)
                \o <<Log("info", "Loaded businesses"),
                     Log("info", "First business after processing")>>
                \o (IF Len(list) = 0
                    THEN <<Log("warning", "No businesses found in businesses.json")>>
                    ELSE <<>>)
                \o MissingFieldsLog(list)]

\* src/unnamed/part_000, after response.json() has resolved with `data`
LoadPayloadLocal(data) ==
    IF data.data \in {"string", "number", "object"}
    THEN MapIsNotAFunction(data.data,
                           <<Log("info", "Successfully loaded businesses")>>
                           \o (IF data.data = "string"
                               THEN <<Log("info", "First business data structure")>>
                               ELSE <<>>))
    ELSE IF MapThrowsAt(BusinessesArray(data)) > 0
    THEN MapThrew(BusinessesArray(data), MapThrowsAt(BusinessesArray(data)),
                  <<Log("info", "Successfully loaded businesses"),
                    Log("info", "First business data structure")>>)
    ELSE LoadedLocal(BusinessesArray(data), AssignIds(BusinessesArray(data)))

LoadPayload(v, data) ==
    IF v = "server" THEN LoadPayloadServer(data) ELSE LoadPayloadLocal(data)

\* reading a property of the body `null` (data.status in src/dashboard.js,
\* data.data in part_000) throws a TypeError inside the try block
ReadingBodyThrows(data) == data.shape = "null"

\* a catch block that would reset the list on failure; the code does not do
\* this, and the failure property below tells the two apart
LoadCatchClears(held) ==
    [businesses |-> <<>>, outcome |-> "failed", promise |-> "fulfilled",
     logged |-> <<Log("error", "Error loading businesses")>>]

\* the catch block of loadBusinesses: the error is logged and swallowed,
\* this.businesses is left as it is (`held` are its records)
LoadCatch(held) ==
    [businesses |-> held, outcome |-> "failed", promise |-> "fulfilled",
     logged |-> <<Log("error", "Error loading businesses")>>]

\* this.log("Fetching businesses from server...") and its part_000 twin
FetchingLog(v) ==
    IF v = "server" THEN Log("info", "Fetching businesses from server...")
    ELSE Log("info", "Loading businesses from local JSON file...")

----------------------------------------------------------------------------
(* What the outside delivers *)

sCafeA == <<"C","a","f","e"," ","A">>
sCafe == <<"c","a","f","e">>
sBarB == <<"B","a","r"," ","B">>
sBar == <<"b","a","r">>
sPubC == <<"P","u","b"," ","C">>
sNightClub == <<"n","i","g","h","t","_","c","l","u","b">>
sRoad == <<"1"," ","R","d">>
sMonTue == <<"M","o","n","\n","T","u","e">>
sBiz2 == <<"b","i","z","-","2">>
sJan1 == <<"2","0","2","4","-","0","1","-","0","1">>
sJan2 == <<"2","0","2","4","-","0","1","-","0","2">>

\* {name: "Cafe A", business_type: "cafe", address: "1 Rd", ...}
rCafe == Rec(Undefined, Str(sCafeA), Str(sCafe), Str(sRoad), Str(sMonTue),
             Str(sJan1), Undefined, Undefined)
\* {name: "Bar B", business_type: "bar"}
rBar == Rec(Undefined, Str(sBarB), Str(sBar), Undefined, Undefined,
            Undefined, Undefined, Undefined)
\* a record that carries its own id, "biz-2", and coordinates
rOwnId == Rec(Str(sBiz2), Str(sPubC), Str(sNightClub), Str(sRoad), Str(sMonTue),
              Str(sJan2), Num(<<"1">>), Num(<<"2">>))

sDeliD == <<"D","e","l","i"," ","D">>

\* a record without a name
rNoName == Rec(Undefined, Undefined, Str(sCafe), Str(sRoad), Str(sMonTue),
               Str(sJan1), Undefined, Undefined)
\* a record whose business_type is the number 5 and not a string
rTypeNumber == Rec(Undefined, Str(sDeliD), Num(<<"5">>), Str(sRoad), Str(sMonTue),
                   Str(sJan2), Undefined, Undefined)

\* The collector deduplicates: no two records of a payload carry the same id
DistinctOwnIds(a) ==
    \A i, j \in 1..Len(a) :
        i # j /\ Truthy(a[i].id) => ~StrictEq(a[i].id, a[j].id)

\* The shapes of body response.json() can resolve with
Shapes == {"array", "data", "success+data", "nodata", "error"}

\* the body of shape w around the record array a
Payload(w, a) ==
    CASE w = "array" -> ArrayPayload(a)
      [] w = "data" -> ObjectPayload("absent", a)
      [] w = "success+data" -> ObjectPayload("success", a)
      [] w = "nodata" -> BareObjectPayload("absent")
      [] w = "data:string" -> OddDataPayload("string")
      [] w = "data:number" -> OddDataPayload("number")
      [] w = "data:object" -> OddDataPayload("object")
      [] w = "null" -> NullPayload
      [] OTHER -> BareObjectPayload("error")

\* the shapes that carry a record array
ArrayShapes == {"array", "data", "success+data"}

\* bodies that are valid JSON and neither an array nor an object with a data
\* array
OddShapes == {"data:string", "data:number", "data:object", "null"}

\* The running example: the two records of the end-to-end scenario and one
\* that carries its own id; a filter text in upper case that matches the
\* first two and not the third
BaseEnv ==
    [records |-> {rCafe, rBar, rOwnId},
     shapes |-> Shapes,
     filters |-> {<<>>, <<"A">>},
     keys |-> {"name", "type", "date"}]

\* Malformed records beside a well-formed one; the filter text "a" matches
\* "Cafe A" and "cafe" and not the name "Deli D"
CorruptEnv ==
    [records |-> {rCafe, rNoName, rTypeNumber},
     shapes |-> Shapes,
     filters |-> {<<>>, <<"a">>},
     keys |-> {"name", "type"}]

\* One well-formed record and one that renders as an error placeholder
SmallEnv ==
    [records |-> {rCafe, rTypeNumber},
     shapes |-> {"array", "error"},
     filters |-> {<<>>},
     keys |-> {"name"}]

\* {id: "", name: "Bar B", business_type: "bar", latitude: 0, longitude: 2}:
\* an id field that holds the empty string, a latitude on the equator
rBlankId == Rec(Str(<<>>), Str(sBarB), Str(sBar), Undefined, Undefined,
                Undefined, Num(<<"0">>), Num(<<"2">>))

\* Bodies of unexpected shape beside the regular one, a record with an
\* empty id, and a sort control that can hold "none"
OddEnv ==
    [records |-> {rCafe, rBlankId},
     shapes |-> {"data"} \cup OddShapes,
     filters |-> {<<>>},
     keys |-> {"name", "none"}]

\* A record renderBusinesses shows beside one it never shows, for want of
\* a name
LookupEnv ==
    [records |-> {rCafe, rNoName},
     shapes |-> {"data"},
     filters |-> {<<>>},
     keys |-> {"name"}]

\* An array with an element that is no object beside a regular record
PartialEnv ==
    [records |-> {rCafe, Primitive},
     shapes |-> {"data", "error"},
     filters |-> {<<>>},
     keys |-> {"name"}]

----------------------------------------------------------------------------
(* The dashboard *)

Null == <<>>

\* new Dashboard(): the constructor has run initialize up to its await, so
\* the first loadBusinesses is waiting for its fetch
InitWith(e) ==
    /\ variant \in {"server", "local"}
    /\ env = e
    /\ businesses = <<>>
    /\ notArray = ""
    /\ selectedBusiness = Null
    /\ sidebar = <<>>
    /\ cards = <<>>
    /\ filterText = <<>>
    /\ sortBy \in e.keys
    /\ listening = FALSE
    /\ loads = <<[pc |-> "fetch", by |-> "initialize"]>>
    /\ logged = <<Log("info", "Initializing dashboard..."), FetchingLog(variant)>>
    /\ last = [op |-> "constructor"]

\* initialize is past its await and has yet to run on: its continuation is a
\* microtask, which runs before any other event is handled
InitializePending == loads[1].pc = "done" /\ ~listening

\* a further call of dashboard.loadBusinesses(), up to its first await
LoadBusinessesCall ==
    /\ ~InitializePending
    /\ Len(loads) < MaxLoads
    /\ loads' = Append(loads, [pc |-> "fetch", by |-> "reload"])
    /\ logged' = <<FetchingLog(variant)>>
    /\ last' = [op |-> "loadBusinesses:call", call |-> Len(loads) + 1]
    /\ UNCHANGED <<variant, env, businesses, notArray, selectedBusiness, sidebar, cards,
                   filterText, sortBy, listening>>

\* the state after loadBusinesses call c has returned, having left r
LoadDone(c, r, cause, data) ==
    /\ businesses' = r.businesses
    /\ notArray' = IF "notArray" \in DOMAIN r THEN r.notArray ELSE notArray
    /\ logged' = r.logged
    /\ loads' = [loads EXCEPT ![c].pc = "done"]
    /\ last' = [op |-> "loadBusinesses", call |-> c, cause |-> cause,
                outcome |-> r.outcome, promise |-> r.promise,
                payload |-> data, before |-> businesses]

\* loadBusinesses when its try block throws: the catch block runs and the
\* call returns
LoadFails(c, cause) ==
    LoadDone(c, LoadCatch(businesses), cause, BareObjectPayload("absent"))

\* `await fetch(...)` settles for call c: the fetch rejects, or resolves
\* with a response that is not ok, or with one that is ok
FetchSettles(c) ==
    /\ ~InitializePending
    /\ c \in 1..Len(loads)
    /\ loads[c].pc = "fetch"
    /\ \E r \in {"reject", "notok", "ok"} :
          IF r = "ok"
          THEN /\ loads' = [loads EXCEPT ![c].pc = "json"]
               /\ logged' = <<>>
               /\ last' = [op |-> "loadBusinesses:fetched", call |-> c]
               /\ UNCHANGED <<businesses, notArray>>
          ELSE LoadFails(c, r)
    /\ UNCHANGED <<variant, env, selectedBusiness, sidebar, cards,
                   filterText, sortBy, listening>>

\* `await response.json()` settles for call c: the body is not JSON, or it
\* parses to `data` and the rest of loadBusinesses runs
JsonSettles(c) ==
    /\ ~InitializePending
    /\ c \in 1..Len(loads)
    /\ loads[c].pc = "json"
    /\ \/ LoadFails(c, "badjson")
       \/ \E w \in env.shapes, k \in 0..MaxLen :
          \E a \in [1..k -> env.records] :
            /\ w \notin ArrayShapes => k = 0
            /\ DistinctOwnIds(a)
            /\ IF ReadingBodyThrows(Payload(w, a))
               THEN LoadDone(c, LoadCatch(businesses), "none", Payload(w, a))
               ELSE LoadDone(c, LoadPayload(variant, Payload(w, a)), "none",
                             Payload(w, a))
    /\ UNCHANGED <<variant, env, selectedBusiness, sidebar, cards,
                   filterText, sortBy, listening>>

----------------------------------------------------------------------------
(* renderBusinesses *)

\* The callback of this.businesses.filter for record b and the lower-cased
\* filter text f: "drop" (a required field is missing, warned), "keep",
\* "skip" (no match) or "throw" (toLowerCase is called on a non-string)
FilterStep(b, f) ==
    IF ~Truthy(b.name) \/ ~Truthy(b.business_type) THEN "drop"
    ELSE IF b.name.t # "string" THEN "throw"
    ELSE IF includes(toLowerCase(b.name.v), f) THEN "keep"
    ELSE IF b.business_type.t # "string" THEN "throw"
    ELSE IF includes(toLowerCase(b.business_type.v), f) THEN "keep"
    ELSE "skip"

RECURSIVE FilterSteps(_, _)
\* what the filter callback does on each record of list, in order
FilterSteps(list, f) ==
    IF list = <<>> THEN <<>>
    ELSE <<FilterStep(Head(list), f)>> \o FilterSteps(Tail(list), f)

\* the position of the first record the filter callback throws on, or 0
FilterThrowsAt(steps) ==
    IF \E i \in 1..Len(steps) : steps[i] = "throw"
    THEN CHOOSE i \in 1..Len(steps) :
            /\ steps[i] = "throw"
            /\ \A j \in 1..(i - 1) : steps[j] # "throw"
    ELSE 0

RECURSIVE PositionsWhere(_, _)
\* the positions i of steps, in order, with steps[i] = what
PositionsWhere(steps, what) ==
    IF steps = <<>> THEN <<>>
    ELSE LET n == Len(steps)
             front == PositionsWhere(SubSeq(steps, 1, n - 1), what)
         IN IF steps[n] = what THEN Append(front, n) ELSE front

\* The comparator of filtered.sort for sort key `key`: negative, zero or
\* positive.  The argument of localeCompare is converted to a string; a
\* difference of dates that is NaN counts as 0, as Array.prototype.sort
\* takes it.
Compare(key, a, b) ==
    CASE key = "name" -> localeCompare(TemplStr(a.name), TemplStr(b.name))
      [] key = "type" ->
            localeCompare(TemplStr(a.business_type), TemplStr(b.business_type))
      [] key = "date" ->
            LET da == DateValue(a.search_date)
                db == DateValue(b.search_date)
            IN IF da = -1 \/ db = -1 THEN 0 ELSE Sign(db - da)
      [] OTHER -> 0

\* a.business_type.localeCompare throws when a's business_type is not a
\* string; which records the engine passes as `a` is its own choice
SortCanThrow(items, key) ==
    /\ key = "type"
    /\ Len(items) >= 2
    /\ \E i \in 1..Len(items) : items[i].business_type.t # "string"

SortCanReturn(items, key) ==
    ~(/\ key = "type"
      /\ Len(items) >= 2
      /\ \A i \in 1..Len(items) : items[i].business_type.t # "string")

Perms(n) == {p \in [1..n -> 1..n] : \A i, j \in 1..n : i # j => p[i] # p[j]}

\* The orders Array.prototype.sort can leave `items` in, each as the
\* sequence of positions taken: the sort is stable, and every two
\* neighbours of the result are in the order the comparator gave for them.
\* A consistent comparator leaves one order; with an inconsistent one (a
\* NaN difference of dates) the order is the engine's choice among these.
SortOutcomes(items, key) ==
    {p \in Perms(Len(items)) :
        \A i \in 1..(Len(items) - 1) :
            LET c == Compare(key, items[p[i]], items[p[i + 1]]) IN
            c < 0 \/ (c = 0 /\ p[i] < p[i + 1])}

sNoName == <<"N","o"," ","N","a","m","e">>
sNoAddress == <<"N","o"," ","A","d","d","r","e","s","s">>
sUnknown == <<"u","n","k","n","o","w","n">>
sHoursUnavailable == <<"H","o","u","r","s"," ","i","n","f","o","r","m","a","t","i","o","n",
                       " ","u","n","a","v","a","i","l","a","b","l","e">>

\* A card of the container.  rec is the record it was rendered from and pos
\* that record's position in this.businesses when it was rendered.
Card(dataId, name, tag, address, maps, hours, rec, pos) ==
    [kind |-> "card", dataId |-> dataId, name |-> name, tag |-> tag,
     address |-> address, maps |-> maps, hours |-> hours, rec |-> rec, pos |-> pos]

\* the placeholder of part_000's catch block: no data-id, no onclick
ErrorCard(rec, pos) ==
    [kind |-> "error", dataId |-> Undefined, name |-> <<>>, tag |-> <<>>,
     address |-> <<>>, maps |-> 0, hours |-> <<>>, rec |-> rec, pos |-> pos]

\* src/dashboard.js: the template of one card throws when business_type or
\* opening_hours is not a string
CardServerThrows(b) ==
    \/ OrElse(b.business_type, Str(sUnknown)).t # "string"
    \/ b.opening_hours.t # "string"

CardServerLog(b) ==
    IF ~Truthy(b.name) \/ ~Truthy(b.address) \/ ~Truthy(b.business_type)
       \/ ~Truthy(b.opening_hours)
    THEN <<Log("warning", "Warning: Business missing required fields")>>
    ELSE <<>>

\* src/dashboard.js lines 143-187: the map row is written twice
CardServer(b, pos) ==
    Card(Str(TemplStr(b.id)),
         TemplStr(OrElse(b.name, Str(sNoName))),
         replaceUnderscores(OrElse(b.business_type, Str(sUnknown)).v),
         TemplStr(OrElse(b.address, Str(sNoAddress))),
         IF Truthy(b.latitude) /\ Truthy(b.longitude) THEN 2 ELSE 0,
         split(b.opening_hours.v), b, pos)

\* part_000's renderOpeningHours(hours), called with a truthy value: the
\* lines, or the fallback line when split is not a function
renderOpeningHours(hours) ==
    IF hours.t = "string" THEN split(hours.v) ELSE <<sHoursUnavailable>>

\* part_000: the try block of one card throws when business_type is not a
\* string
CardLocalThrows(b) == OrElse(b.business_type, Str(sUnknown)).t # "string"

CardLocalLog(b) ==
    IF CardLocalThrows(b)
    THEN <<Log("error", "Error rendering business card")>>
    ELSE IF Truthy(b.opening_hours) /\ b.opening_hours.t # "string"
    THEN <<Log("error", "Error rendering opening hours")>>
    ELSE <<>>

\* part_000 lines 651-720; rnd stands for Math.random().toString(36).substr(2, 9)
CardLocal(b, pos, rnd) ==
    IF CardLocalThrows(b) THEN ErrorCard(b, pos)
    ELSE Card(Str(TemplStr(OrElse(b.id, Str(Biz \o rnd)))),
              TemplStr(OrElse(b.name, Str(sNoName))),
              replaceUnderscores(OrElse(b.business_type, Str(sUnknown)).v),
              TemplStr(OrElse(b.address, Str(sNoAddress))),
              IF Truthy(b.latitude) /\ Truthy(b.longitude) THEN 1 ELSE 0,
              IF Truthy(b.opening_hours) THEN renderOpeningHours(b.opening_hours)
              ELSE <<>>,
              b, pos)

RandomSuffixes == {<<"r","1">>, <<"r","2">>}

RECURSIVE Flatten(_)
Flatten(ss) == IF ss = <<>> THEN <<>> ELSE Head(ss) \o Flatten(Tail(ss))

MissingFieldsWarning ==
    Log("warning", "Warning: Business missing required fields - name, type")

\* what a run of renderBusinesses leaves: whether it returned or threw and
\* in which stage, the cards on display after it, the entries it logged
Rendered(outcome, stage, shown, entries) ==
    [outcome |-> outcome, stage |-> stage, cards |-> shown, logged |-> entries]

\* the entries logged up to the end of the filter pass over `scanned`
RenderHead(scanned) ==
    <<Log("info", "Rendering businesses")>>
    \o [i \in 1..Len(PositionsWhere(scanned, "drop")) |-> MissingFieldsWarning]

\* the first position of `sorted` whose card template throws, or 0
FirstThrowing(list, sorted) ==
    IF \E i \in 1..Len(sorted) : CardServerThrows(list[sorted[i]])
    THEN CHOOSE i \in 1..Len(sorted) :
            /\ CardServerThrows(list[sorted[i]])
            /\ \A j \in 1..(i - 1) : ~CardServerThrows(list[sorted[j]])
    ELSE 0

\* src/dashboard.js: filtered.map(b => `...`).join(''), assigned to
\* innerHTML only when no template throws
RenderCardsServer(list, sorted, stop, mid, shown) ==
    IF stop > 0
    THEN Rendered("threw", "cards", shown,
                  mid \o Flatten([i \in 1..stop |-> CardServerLog(list[sorted[i]])]))
    ELSE Rendered("returned", "done",
                  [i \in 1..Len(sorted) |-> CardServer(list[sorted[i]], sorted[i])],
                  mid \o Flatten([i \in 1..Len(sorted) |->
                                     CardServerLog(list[sorted[i]])]))

\* part_000: every card is built inside its own try block
RenderCardsLocal(list, sorted, rnd, mid) ==
    Rendered("returned", "done",
             [i \in 1..Len(sorted) |-> CardLocal(list[sorted[i]], sorted[i], rnd)],
             mid \o Flatten([i \in 1..Len(sorted) |-> CardLocalLog(list[sorted[i]])]))

\* filtered.sort(...) and the cards: kept are the positions the filter kept
RenderSorted(v, list, kept, mid, sortThrows, perm, rnd, shown) ==
    IF sortThrows THEN Rendered("threw", "sort", shown, mid)
    ELSE IF v = "server"
    THEN RenderCardsServer(list, [i \in 1..Len(kept) |-> kept[perm[i]]],
                           FirstThrowing(list, [i \in 1..Len(kept) |-> kept[perm[i]]]),
                           mid, shown)
    ELSE RenderCardsLocal(list, [i \in 1..Len(kept) |-> kept[perm[i]]], rnd, mid)

\* this.businesses.filter(...): steps is what the callback does on each record
RenderFiltered(v, list, steps, throwsAt, sortThrows, perm, rnd, shown) ==
    IF throwsAt > 0
    THEN Rendered("threw", "filter", shown,
                  RenderHead(SubSeq(steps, 1, throwsAt - 1)))
    ELSE RenderSorted(v, list, PositionsWhere(steps, "keep"),
                      RenderHead(steps) \o <<Log("info", "Filtered businesses")>>,
                      sortThrows, perm, rnd, shown)

\* renderBusinesses on held list `list` with filter text `text` and sort key
\* `key` (which decides sortThrows and perm, the engine's choices in
\* Array.prototype.sort); rnd is the random id suffix, shown the cards on
\* display before the call
RenderBusinesses(v, list, text, sortThrows, perm, rnd, shown) ==
    RenderFiltered(v, list, FilterSteps(list, toLowerCase(text)),
                   FilterThrowsAt(FilterSteps(list, toLowerCase(text))),
                   sortThrows, perm, rnd, shown)

\* the records at the positions `kept` of list
RecordsAt(list, kept) == [i \in 1..Len(kept) |-> list[kept[i]]]

\* the records that reach filtered.sort, in list order: none when the
\* filter callback throws
KeptOf(list, steps) ==
    IF FilterThrowsAt(steps) = 0 THEN RecordsAt(list, PositionsWhere(steps, "keep"))
    ELSE <<>>

Kept(list, text) == KeptOf(list, FilterSteps(list, toLowerCase(text)))

\* whether filtered.sort throws: the engine's choice where it can go both ways
SortThrowChoices(items, key) ==
    {b \in BOOLEAN : IF b THEN SortCanThrow(items, key) ELSE SortCanReturn(items, key)}

\* Math.random() is drawn only for a record whose id is falsy
RandomChoices(items) ==
    IF \E i \in 1..Len(items) : ~Truthy(items[i].id) THEN RandomSuffixes
    ELSE {<<"r","1">>}

\* this.businesses.filter(...) when this.businesses is no array: a
\* TypeError after the first log entry
FilterIsNotAFunction(shown) ==
    Rendered("threw", "filter", shown, <<Log("info", "Rendering businesses")>>)

\* the state after a run of renderBusinesses that left r
RenderDone(r, text, key, why) ==
    /\ cards' = r.cards
    /\ logged' = r.logged
    /\ last' = [op |-> "renderBusinesses", why |-> why,
                outcome |-> r.outcome, stage |-> r.stage,
                text |-> text, key |-> key]

RenderWith(items, text, key, why) ==
    IF notArray # "" THEN RenderDone(FilterIsNotAFunction(cards), text, key, why)
    ELSE
    \E sortThrows \in SortThrowChoices(items, key),
       perm \in SortOutcomes(items, key),
       rnd \in RandomChoices(items) :
        RenderDone(RenderBusinesses(variant, businesses, text,
                                    sortThrows, perm, rnd, cards),
                   text, key, why)

\* One run of renderBusinesses as a step of the dashboard, with the filter
\* text and sort key the controls hold after the step
Render(text, key, why) == RenderWith(Kept(businesses, text), text, key, why)

\* initialize after `await this.loadBusinesses()`: setupEventListeners(),
\* then renderBusinesses()
InitializeResumes ==
    /\ InitializePending
    /\ listening' = TRUE
    /\ Render(filterText, sortBy, "initialize")
    /\ UNCHANGED <<variant, env, businesses, notArray, selectedBusiness, sidebar,
                   filterText, sortBy, loads>>

\* the user edits the filter box: its 'input' listener runs renderBusinesses
FilterInput ==
    /\ listening
    /\ \E text \in env.filters :
          /\ filterText' = text
          /\ Render(text, sortBy, "input")
    /\ UNCHANGED <<variant, env, businesses, notArray, selectedBusiness, sidebar,
                   sortBy, listening, loads>>

\* the user picks a sort key: its 'change' listener runs renderBusinesses
SortChange ==
    /\ listening
    /\ \E key \in env.keys :
          /\ sortBy' = key
          /\ Render(filterText, key, "change")
    /\ UNCHANGED <<variant, env, businesses, notArray, selectedBusiness, sidebar,
                   filterText, listening, loads>>

\* the search button: handleSearch only logs
HandleSearch ==
    /\ listening
    /\ logged' = <<Log("info", "Searching for")>>
    /\ last' = [op |-> "handleSearch"]
    /\ UNCHANGED <<variant, env, businesses, notArray, selectedBusiness, sidebar, cards,
                   filterText, sortBy, listening, loads>>

----------------------------------------------------------------------------
(* showBusinessDetails *)

\* The state a detail request works on: the selection and the panel
Detail(sel, side) == [selectedBusiness |-> sel, sidebar |-> side]

\* the detail view of the panel; rec is the record it shows
DetailView(name, address, maps, hours, rec) ==
    [name |-> name, address |-> address, maps |-> maps, hours |-> hours, rec |-> rec]

\* a lookup that would search only the records renderBusinesses can show,
\* those with a name and a business_type; the code searches them all
FindByIdAmongShown(list, id) ==
    IF \E i \in 1..Len(list) :
          StrictEq(list[i].id, id) /\ Truthy(list[i].name) /\ Truthy(list[i].business_type)
    THEN CHOOSE i \in 1..Len(list) :
            StrictEq(list[i].id, id) /\ Truthy(list[i].name) /\ Truthy(list[i].business_type)
    ELSE 0

\* this.businesses.find(b => b.id === id): the position found, or 0
FindById(list, id) ==
    IF \E i \in 1..Len(list) : StrictEq(list[i].id, id)
    THEN CHOOSE i \in 1..Len(list) :
            /\ StrictEq(list[i].id, id)
            /\ \A j \in 1..(i - 1) : ~StrictEq(list[j].id, id)
    ELSE 0

\* if (!id) { this.log('No business ID provided', 'error'); return; }
\* a call without id that would blank the selection and the panel; the code
\* returns before it touches either
NoIdProvidedClears(d) ==
    [detail |-> [selectedBusiness |-> <<>>, sidebar |-> <<>>],
     outcome |-> "noid",
     logged |-> <<Log("error", "No business ID provided")>>]

NoIdProvided(d) ==
    [detail |-> d, outcome |-> "noid",
     logged |-> <<Log("error", "No business ID provided")>>]

\* a lookup miss that would blank the selection and the panel; the code does
\* not do this, and the detail property below tells the two apart
NotFoundClears(d) ==
    [detail |-> [selectedBusiness |-> <<>>, sidebar |-> <<>>],
     outcome |-> "notfound",
     logged |-> <<Log("error", "Business with ID not found")>>]

\* if (!business) { this.log(`Business with ID ${id} not found`, 'error'); return; }
NotFound(d) ==
    [detail |-> d, outcome |-> "notfound",
     logged |-> <<Log("error", "Business with ID not found")>>]

\* this.businesses.find(...) when this.businesses is no array: a TypeError
FindIsNotAFunction(d) == [detail |-> d, outcome |-> "threw", logged |-> <<>>]

\* the template of the panel throws when split is called on opening_hours
\* and it is not a string; part_000 calls it only on a truthy value
PanelThrows(v, b) ==
    IF v = "server" THEN b.opening_hours.t # "string"
    ELSE Truthy(b.opening_hours) /\ b.opening_hours.t # "string"

Panel(v, b) ==
    DetailView(TemplStr(b.name), TemplStr(b.address),
               IF Truthy(b.latitude) /\ Truthy(b.longitude) THEN 1 ELSE 0,
               IF v = "local" /\ ~Truthy(b.opening_hours) THEN <<>>
               ELSE split(b.opening_hours.v),
               b)

\* this.selectedBusiness = business; this.sidebar.innerHTML = `...`
ShowFound(v, d, b) ==
    IF PanelThrows(v, b)
    THEN [detail |-> Detail(<<b>>, d.sidebar), outcome |-> "threw", logged |-> <<>>]
    ELSE [detail |-> Detail(<<b>>, <<Panel(v, b)>>), outcome |-> "shown",
          logged |-> <<>>]

\* showBusinessDetails(id) on held list `list` and detail state d
showBusinessDetails(v, list, d, id) ==
    IF ~Truthy(id) THEN NoIdProvided(d)
    ELSE IF notArray # "" THEN FindIsNotAFunction(d)
    ELSE IF FindById(list, id) = 0 THEN NotFound(d)
    ELSE ShowFound(v, d, list[FindById(list, id)])

\* The showBusinessDetails calls one click on a card makes, in order: the
\* inline onclick="dashboard.showBusinessDetails('<id>')" of a card that has
\* one, then the click listener added after rendering, which calls it with
\* card.dataset.id unless the click landed on a link
ClickCalls(card, onLink) ==
    (IF card.kind = "card" THEN <<Str(TemplStr(card.dataId))>> ELSE <<>>)
    \o (IF onLink THEN <<>> ELSE <<card.dataId>>)

RECURSIVE RunCalls(_, _, _, _)
RECURSIVE CallThen(_, _, _, _, _)
\* the record of the call Head(ids), which left r, and of the calls after it
CallThen(v, list, d, ids, r) ==
    <<[id |-> Head(ids), before |-> d, after |-> r.detail,
       outcome |-> r.outcome, logged |-> r.logged]>>
    \o RunCalls(v, list, r.detail, Tail(ids))

\* the record of each call of `ids` made in turn from detail state d
RunCalls(v, list, d, ids) ==
    IF ids = <<>> THEN <<>>
    ELSE CallThen(v, list, d, ids, showBusinessDetails(v, list, d, Head(ids)))

\* the detail state the calls leave, from d
DetailAfter(d, calls) == IF calls = <<>> THEN d ELSE calls[Len(calls)].after

\* the state after a click on card i that made `calls`
ClickDone(i, onLink, calls) ==
    /\ selectedBusiness' = DetailAfter(Detail(selectedBusiness, sidebar), calls).selectedBusiness
    /\ sidebar' = DetailAfter(Detail(selectedBusiness, sidebar), calls).sidebar
    /\ logged' = Flatten([k \in 1..Len(calls) |-> calls[k].logged])
    /\ last' = [op |-> "click", card |-> cards[i], onLink |-> onLink,
                calls |-> calls]

\* the user clicks card i of the container, on one of its links or elsewhere
CardClick ==
    /\ listening
    /\ \E i \in 1..Len(cards), onLink \in BOOLEAN :
          /\ onLink => cards[i].maps > 0
          /\ ClickDone(i, onLink,
                       RunCalls(variant, businesses, Detail(selectedBusiness, sidebar),
                                ClickCalls(cards[i], onLink)))
    /\ UNCHANGED <<variant, env, businesses, notArray, cards, filterText,
                   sortBy, listening, loads>>

----------------------------------------------------------------------------
(* Specifications *)

Next ==
    \/ LoadBusinessesCall
    \/ \E c \in 1..MaxLoads : FetchSettles(c)
    \/ \E c \in 1..MaxLoads : JsonSettles(c)
    \/ InitializeResumes
    \/ FilterInput
    \/ SortChange
    \/ HandleSearch
    \/ CardClick

Init == InitWith(BaseEnv)

Spec == Init /\ [][Next]_vars

InitCorrupt == InitWith(CorruptEnv)

SpecCorrupt == InitCorrupt /\ [][Next]_vars

InitSmall == InitWith(SmallEnv)

SpecSmall == InitSmall /\ [][Next]_vars

InitOdd == InitWith(OddEnv)

InitLookup == InitWith(LookupEnv)

InitPartial == InitWith(PartialEnv)

SpecPartial == InitPartial /\ [][Next]_vars

SpecLookup == InitLookup /\ [][Next]_vars

SpecOdd == InitOdd /\ [][Next]_vars

----------------------------------------------------------------------------
(* Claims about loadBusinesses *)

LoadReturned == last.op = "loadBusinesses"

\* the last step was a loadBusinesses that parsed a body carrying a record
\* array, bare or under data
LoadedArray ==
    /\ LoadReturned
    /\ last.cause = "none"
    /\ last.payload.shape = "array" \/ last.payload.hasData

\* the same record array in the other payload shape
OtherShape(data) ==
    IF data.shape = "array" THEN ObjectPayload("absent", data.items)
    ELSE ArrayPayload(data.items)

\* C1: a record array leaves the same held list, record for record and in
\* the same order, whether it arrives bare or as the data of an object
C1_ShapesAgree ==
    LoadedArray =>
        businesses = LoadPayload(variant, OtherShape(last.payload)).businesses

\* the loader of part_000 alone does treat the two shapes alike
C1_ShapesAgreeLocal == variant = "local" => C1_ShapesAgree

TransportOrParseFailure ==
    LoadReturned /\ last.cause \in {"reject", "notok", "badjson"}

\* C2: a load that fails in transport or parsing leaves the held list as it
\* was before the call, logs an error entry, and its promise does not reject
C2_FailureKeepsList ==
    TransportOrParseFailure =>
        /\ businesses = last.before
        /\ \E i \in 1..Len(logged) : logged[i].type = "error"
        /\ last.promise = "fulfilled"

\* a failed reload after a load that had filled the list
C2_Witness == TransportOrParseFailure /\ last.before # <<>> /\ last.call > 1

\* C3: no two records of the held list have the same id
C3_IdsUnique ==
    \A i, j \in 1..Len(businesses) :
        i # j => ~StrictEq(businesses[i].id, businesses[j].id)

\* C4: after a load of a payload of n records, the record that arrived
\* without an id at position k holds the id "biz-k"
C4_PositionalIds ==
    LoadedArray /\ last.outcome = "loaded" =>
        \A k \in 1..Len(last.payload.items) :
            last.payload.items[k].id.t = "undefined" =>
                /\ k <= Len(businesses)
                /\ businesses[k] =
                     [last.payload.items[k] EXCEPT !.id = Str(Biz \o Digits(k))]

----------------------------------------------------------------------------
(* Claims about renderBusinesses *)

RenderRan == last.op = "renderBusinesses"
RenderReturned == RenderRan /\ last.outcome = "returned"

\* the matching rule in the words of the specification
Matches(b, text) ==
    /\ Truthy(b.name)
    /\ Truthy(b.business_type)
    /\ \/ includes(toLowerCase(TemplStr(b.name)), toLowerCase(text))
       \/ includes(toLowerCase(TemplStr(b.business_type)), toLowerCase(text))

\* the cards on display show the records of the held list at the positions
\* P, each once
ShowsExactly(P) ==
    /\ \A i \in 1..Len(cards) :
          /\ cards[i].pos \in P
          /\ cards[i].kind = "card"
          /\ cards[i].rec = businesses[cards[i].pos]
    /\ \A p \in P : Cardinality({i \in 1..Len(cards) : cards[i].pos = p}) = 1

MatchingPositions ==
    {p \in 1..Len(businesses) : Matches(businesses[p], filterText)}

\* C5: renderBusinesses shows exactly the records that have a name and a
\* business_type and match the filter text, each once
C5_ShowsMatching == RenderRan => ShowsExactly(MatchingPositions)

\* C7: with sort key name or type the records shown are the matching
\* records in non-decreasing order of the key, records with equal keys in
\* the order of the held list, and sorting them again changes nothing
C7_SortedByKey ==
    RenderRan /\ last.key \in {"name", "type"} =>
        /\ ShowsExactly(MatchingPositions)
        /\ \A i, j \in 1..Len(cards) :
              i < j =>
                LET c == Compare(last.key, cards[i].rec, cards[j].rec) IN
                c < 0 \/ (c = 0 /\ cards[i].pos < cards[j].pos)
        /\ SortOutcomes([i \in 1..Len(cards) |-> cards[i].rec], last.key)
             = {[i \in 1..Len(cards) |-> i]}

HasDate(b) == DateValue(b.search_date) # -1

\* C8: when renderBusinesses returns with sort key date, the cards are in
\* descending order of search_date and every record without a parseable
\* search_date comes after every record with one
C8_DatedFirst ==
    RenderReturned /\ last.key = "date" =>
        \A i, j \in 1..Len(cards) :
            i < j =>
                /\ HasDate(cards[j].rec) => HasDate(cards[i].rec)
                /\ HasDate(cards[i].rec) /\ HasDate(cards[j].rec) =>
                      DateValue(cards[i].rec.search_date)
                        >= DateValue(cards[j].rec.search_date)

\* a record lacking name or business_type
LacksRequired(b) == ~Truthy(b.name) \/ ~Truthy(b.business_type)

\* C6: every record on a card has a name and a business_type, and a run of
\* renderBusinesses logs one warning for each record of the held list that
\* lacks either
C6_DroppedAndWarned ==
    RenderRan =>
        /\ \A i \in 1..Len(cards) : ~LacksRequired(cards[i].rec)
        /\ Cardinality({i \in 1..Len(logged) : logged[i] = MissingFieldsWarning})
             = Cardinality({p \in 1..Len(businesses) : LacksRequired(businesses[p])})

\* a record whose business_type is not a string
CorruptType(b) == Truthy(b.business_type) /\ b.business_type.t # "string"

WellFormed(b) ==
    /\ b.name.t = "string"
    /\ b.business_type.t = "string"
    /\ b.opening_hours.t = "string"

CardsOf(p, kind) == {i \in 1..Len(cards) : cards[i].pos = p /\ cards[i].kind = kind}

\* C9: renderBusinesses does not abort on a record whose business_type is
\* not a string: that record gets one error placeholder, and every
\* well-formed record matching the filter text gets its normal card
C9_PlaceholderOnly ==
    RenderRan =>
        /\ last.outcome = "returned"
        /\ \A p \in 1..Len(businesses) :
              /\ WellFormed(businesses[p]) /\ Matches(businesses[p], filterText) =>
                    Cardinality(CardsOf(p, "card")) = 1
              /\ CorruptType(businesses[p]) /\ Matches(businesses[p], filterText) =>
                    Cardinality(CardsOf(p, "error")) = 1

----------------------------------------------------------------------------
(* Claims about showBusinessDetails *)

Clicked == last.op = "click"

\* a call of showBusinessDetails with an id that is empty or absent, or that
\* no record of the held list has
Unmatched(call) ==
    \/ ~Truthy(call.id)
    \/ notArray = "" /\ FindById(businesses, call.id) = 0

C10_WitnessNoId ==
    /\ Clicked
    /\ selectedBusiness # Null
    /\ \E k \in 1..Len(last.calls) : ~Truthy(last.calls[k].id)

----------------------------------------------------------------------------
(* Claims about malformed records *)

\* the positions of the held list whose record has the id `id`
HeldWithId(id) == {p \in 1..Len(businesses) : StrictEq(businesses[p].id, id)}

\* the record a call of showBusinessDetails looks up: its position in the
\* held list, or 0 when the call has no id or the list has no such record
Found(call) ==
    IF Truthy(call.id) /\ notArray = "" /\ HeldWithId(call.id) # {}
    THEN CHOOSE p \in HeldWithId(call.id) : \A q \in HeldWithId(call.id) : p <= q
    ELSE 0

\* C11: neither renderBusinesses nor showBusinessDetails raises an exception,
\* whatever the fields of the records of the held list are
C11_NoUnhandledException ==
    /\ RenderRan => last.outcome # "threw"
    /\ Clicked => \A k \in 1..Len(last.calls) : last.calls[k].outcome # "threw"

\* C12: a record without opening_hours, or with empty ones, is rendered
\* without an error as a card and as a detail view, each with no schedule line
C12_MissingHoursNoError ==
    /\ RenderRan /\ (\E p \in MatchingPositions : ~Truthy(businesses[p].opening_hours)) =>
          /\ last.outcome = "returned"
          /\ \A p \in MatchingPositions :
                ~Truthy(businesses[p].opening_hours) =>
                    \E i \in 1..Len(cards) :
                        /\ cards[i].rec = businesses[p]
                        /\ cards[i].kind = "card"
                        /\ cards[i].hours = <<>>
    /\ Clicked =>
          \A k \in 1..Len(last.calls) :
              LET p == Found(last.calls[k]) IN
              p # 0 /\ ~Truthy(businesses[p].opening_hours) =>
                  /\ last.calls[k].outcome = "shown"
                  /\ Len(last.calls[k].after.sidebar) = 1
                  /\ last.calls[k].after.sidebar[1].hours = <<>>

----------------------------------------------------------------------------
(* Claims about what a load leaves *)

\* a record with its id left out of the comparison
WithoutId(b) == [b EXCEPT !.id = Undefined]

\* C13: a load changes no field the payload supplied: every record keeps
\* its fields, and a record that arrived with an id field keeps that id
C13_SuppliedFieldsKept ==
    LoadedArray /\ last.outcome = "loaded" /\ Len(businesses) > 0 =>
        \A k \in 1..Len(last.payload.items) :
            /\ k <= Len(businesses)
            /\ WithoutId(businesses[k]) = WithoutId(last.payload.items[k])
            /\ last.payload.items[k].id.t # "undefined" =>
                  businesses[k].id = last.payload.items[k].id

\* C14: after a load of the payload records R the held list is R, record
\* for record and in payload order, and holds nothing else
C14_ReplacedWholesale ==
    LoadedArray /\ last.outcome = "loaded" =>
        /\ notArray = ""
        /\ Len(businesses) = Len(last.payload.items)
        /\ \A k \in 1..Len(businesses) :
              WithoutId(businesses[k]) = WithoutId(last.payload.items[k])

\* the last step was a load of a body that is neither an array nor an
\* object with a data array
LoadedOddShape ==
    /\ LoadReturned
    /\ last.cause = "none"
    /\ last.payload.shape # "array"
    /\ ~last.payload.hasData
    /\ last.payload.status # "error"

\* C15: a body that is neither an array nor an object with a data array
\* leaves the empty list, and this.businesses is an array in every state
C15_OddShapeIsEmptyList ==
    /\ notArray = ""
    /\ LoadedOddShape => businesses = <<>>

----------------------------------------------------------------------------
(* Claims about the query *)

\* C16: with a sort key outside name, type and date renderBusinesses returns
\* and shows the matching records in the order of the held list
C16_UnknownKeyKeepsOrder ==
    RenderRan /\ notArray = "" /\ last.key \notin {"name", "type", "date"} =>
        /\ last.outcome = "returned"
        /\ ShowsExactly(MatchingPositions)
        /\ \A i, j \in 1..Len(cards) : i < j => cards[i].pos < cards[j].pos

\* the part of C16 about the order alone: a run that returns keeps it
C16_OrderWhenReturned ==
    RenderReturned /\ last.key \notin {"name", "type", "date"} =>
        \A i, j \in 1..Len(cards) : i < j => cards[i].pos < cards[j].pos

\* C17: what renderBusinesses shows depends on the held list, the filter
\* text and the sort key alone: it is what a run on the same three shows
\* when nothing was on display before
C17_PureQuery ==
    RenderRan /\ notArray = "" =>
        \E sortThrows \in SortThrowChoices(Kept(businesses, last.text), last.key),
           perm \in SortOutcomes(Kept(businesses, last.text), last.key),
           rnd \in RandomChoices(Kept(businesses, last.text)) :
            cards = RenderBusinesses(variant, businesses, last.text,
                                     sortThrows, perm, rnd, <<>>).cards

\* renderBusinesses writes neither the held list nor the selection
C17_RenderFrame ==
    [][RenderRan' => /\ businesses' = businesses
                     /\ notArray' = notArray
                     /\ selectedBusiness' = selectedBusiness]_vars

\* C18: showBusinessDetails given the id of a record of the held list
\* selects a record of the held list with that id, whether or not the
\* record has a name and a business_type and matches the filter text
C18_LooksUpHeldList ==
    Clicked =>
        \A k \in 1..Len(last.calls) :
            Found(last.calls[k]) # 0 =>
                /\ Len(last.calls[k].after.selectedBusiness) = 1
                /\ \E p \in 1..Len(businesses) :
                      /\ businesses[p] = last.calls[k].after.selectedBusiness[1]
                      /\ StrictEq(businesses[p].id, last.calls[k].id)

\* a click selected a record that has no name
C18_Witness ==
    /\ Clicked
    /\ \E k \in 1..Len(last.calls) :
          /\ Found(last.calls[k]) # 0
          /\ ~Truthy(businesses[Found(last.calls[k])].name)
          /\ selectedBusiness = <<businesses[Found(last.calls[k])]>>

\* a click selected a record that has a name and a business_type and that
\* the filter text excludes
C18_WitnessFiltered ==
    /\ Clicked
    /\ \E k \in 1..Len(last.calls) :
          /\ Found(last.calls[k]) # 0
          /\ ~LacksRequired(businesses[Found(last.calls[k])])
          /\ ~Matches(businesses[Found(last.calls[k])], filterText)
          /\ selectedBusiness = <<businesses[Found(last.calls[k])]>>

----------------------------------------------------------------------------
(* Claims about the views *)

\* the number of map links the views of record b are to hold
MapLinksDue(b) ==
    IF b.latitude.t = "number" /\ b.longitude.t = "number" THEN 1 ELSE 0

\* C19: a card and a detail view hold one map link when latitude and
\* longitude are both numbers, 0 included, and none otherwise
C19_MapLinkIffNumeric ==
    /\ \A i \in 1..Len(cards) :
          cards[i].kind = "card" => cards[i].maps = MapLinksDue(cards[i].rec)
    /\ Len(sidebar) = 1 => sidebar[1].maps = MapLinksDue(sidebar[1].rec)

\* the text with every underscore turned into a space
Spaced(text) == [j \in 1..Len(text) |-> IF text[j] = "_" THEN " " ELSE text[j]]

\* C20: a card and a detail view of a record without address show
\* "No Address", and a card shows business_type with spaces for underscores
C20_Fallbacks ==
    /\ \A i \in 1..Len(cards) :
          cards[i].kind = "card" =>
              /\ cards[i].rec.address.t = "undefined" => cards[i].address = sNoAddress
              /\ cards[i].rec.business_type.t = "string" =>
                    cards[i].tag = Spaced(cards[i].rec.business_type.v)
    /\ Len(sidebar) = 1 /\ sidebar[1].rec.address.t = "undefined" =>
          sidebar[1].address = sNoAddress

\* the card half of C20 alone
C20_CardFallbacks ==
    \A i \in 1..Len(cards) :
        cards[i].kind = "card" =>
            /\ cards[i].rec.address.t = "undefined" => cards[i].address = sNoAddress
            /\ cards[i].rec.business_type.t = "string" =>
                  cards[i].tag = Spaced(cards[i].rec.business_type.v)

----------------------------------------------------------------------------
(* Claims about loads in flight together, and about the selection *)

\* C21: when a later call of loadBusinesses has returned with its payload
\* and the payload of an earlier call arrives after that, the earlier call
\* leaves the held list as the later call left it
C21_LaterLoadWins ==
    [][(/\ LoadReturned /\ last.outcome = "loaded"
        /\ LoadReturned' /\ last'.call < last.call)
       => businesses' = businesses /\ notArray' = notArray]_vars

\* the held list is written only in the step in which a call of
\* loadBusinesses runs from the arrival of its payload to its return
C22_ListWrittenOnReturn ==
    [][(businesses' # businesses \/ notArray' # notArray) => LoadReturned']_vars

\* C22: renderBusinesses and showBusinessDetails never run on a held list
\* that was replaced and has a record without id, with one load in flight
\* or two
C22_NoHalfAssignedList ==
    (RenderRan \/ Clicked) /\ notArray = "" =>
        \A i \in 1..Len(businesses) : Truthy(businesses[i].id)

\* C23: selectedBusiness is null at construction and changes only in a
\* click whose showBusinessDetails call finds a record of the held list, to
\* that record; loads, renders and handleSearch leave it as it is
C23_SelectionFrame ==
    [][/\ last.op = "constructor" => selectedBusiness = Null
       /\ selectedBusiness' # selectedBusiness =>
            /\ Clicked'
            /\ \E k \in 1..Len(last'.calls) :
                  /\ Found(last'.calls[k]) # 0
                  /\ selectedBusiness' = <<businesses[Found(last'.calls[k])]>>]_vars

\* a load returned while a record was selected
C23_Witness == LoadReturned /\ selectedBusiness # Null /\ businesses # last.before

\* until initialize has registered the listeners nothing is rendered or
\* selected, and the listeners are registered in the step in which
\* initialize renders, which follows the return of the first load at once
C24_InitializeOrder ==
    /\ [](~listening =>
            /\ cards = <<>> /\ selectedBusiness = Null /\ sidebar = <<>>
            /\ ~RenderRan /\ ~Clicked)
    /\ [][(~listening /\ listening') <=>
              (RenderRan' /\ last'.why = "initialize")]_vars
    /\ [][(~listening /\ LoadReturned /\ last.call = 1) => listening']_vars

\* C24: nothing is rendered or selected before the first load has settled;
\* then the listeners are registered and renderBusinesses runs once, on an
\* empty list if the load failed
C24_InitializeRendersOnce ==
    /\ C24_InitializeOrder
    /\ [][(/\ ~listening /\ LoadReturned /\ last.call = 1
            /\ last.outcome # "loaded" /\ listening')
           => businesses' = <<>> /\ notArray' = ""]_vars

\* C25: a click on a card that shows a record makes one call of
\* showBusinessDetails, on a link of the card or elsewhere on it
C25_OneCallPerClick ==
    Clicked /\ last.card.kind = "card" => Len(last.calls) = 1

\* C26: when loadBusinesses returns, the held list is the whole payload
\* with an id on every record, after a call that reported no error, or it is
\* the list held before the call
C26_AllOrNothing ==
    LoadReturned =>
        \/ businesses = last.before
        \/ /\ last.outcome = "loaded"
           /\ notArray = ""
           /\ Len(businesses) = Len(last.payload.items)
           /\ \A i \in 1..Len(businesses) :
                 /\ Truthy(businesses[i].id)
                 /\ WithoutId(businesses[i]) = WithoutId(last.payload.items[i])

\* C27: a click on a card that shows a record selects the record the card
\* was rendered from
C27_SelectsRenderedRecord ==
    Clicked /\ last.card.kind = "card" => selectedBusiness = <<last.card.rec>>

\* C28: selectedBusiness is null or a record of the held list
C28_SelectionIsHeld ==
    \/ selectedBusiness = Null
    \/ /\ notArray = ""
       /\ \E p \in 1..Len(businesses) : businesses[p] = selectedBusiness[1]

\* C29: the panel shows the record in selectedBusiness, or both are as the
\* constructor left them
C29_PanelShowsSelection ==
    \/ selectedBusiness = Null /\ sidebar = <<>>
    \/ /\ Len(selectedBusiness) = 1
       /\ Len(sidebar) = 1
       /\ sidebar[1].rec = selectedBusiness[1]

\* C30: once initialize has finished, the cards shown are what
\* renderBusinesses makes of the held list, the filter text and the sort
\* key of the moment
C30_CardsUpToDate ==
    listening /\ notArray = "" =>
        \E sortThrows \in SortThrowChoices(Kept(businesses, filterText), sortBy),
           perm \in SortOutcomes(Kept(businesses, filterText), sortBy),
           rnd \in RandomChoices(Kept(businesses, filterText)) :
            cards = RenderBusinesses(variant, businesses, filterText,
                                     sortThrows, perm, rnd, cards).cards

====
